---- MODULE Spec2Model ----
(***************************************************************************)
(* Whac-a-mole (src/mvc.js): the Model.State object, the Controller's      *)
(* startGame and handleBlockClick handlers, and the host's timers          *)
(* (setInterval / setTimeout) that drive them.                             *)
(*                                                                         *)
(* Time is kept as the delay left on every pending timer.  A timer handle  *)
(* stored in a field is modelled by the timer it names: a number >= 0, the *)
(* milliseconds left until the timer fires, and NullHandle when it names   *)
(* no pending timer (null, or the handle of a timer that has fired or was  *)
(* cleared: clearTimeout and clearInterval do nothing on either).  Timers  *)
(* that are still pending but that no field names any more are kept in     *)
(* state.timeouts: neither clearInterval nor clearTimeout can reach them.  *)
(*                                                                         *)
(* Timers fire when their delay has run out, never earlier or later; the   *)
(* callbacks that are due at the same instant run in any order, and a      *)
(* click on a block or on the start button can come between any two of     *)
(* them.  Every handler and every callback runs to its end before the next *)
(* one starts, as the event loop has it.                                   *)
(***************************************************************************)
EXTENDS Integers, FiniteSets, Sequences, TLC

\* ---------------------------------------------------------------- constants
BoardLength   == 12
maxMoles      == 3
StartTimer    == 30
TimerPeriod   == 1000
MolePeriod    == 1000
SnakePeriod   == 2000
MoleLifetime  == 2000
GameOverDelay == 500
NullHandle    == -1

\* The step of the clock: every delay of the program is a multiple of it.
Quantum == GameOverDelay

\* ------------------------------------------------------------------- bounds
\* Math.random() of setMoleAtRandom is drawn from the first MaxIndex cells,
MaxIndex    == 4
\* Math.random() of setSnakeAtRandom from the first MaxSnake cells,
MaxSnake    == 2
\* and the clicked block from the first MaxClick cells.
MaxClick    == 2
\* Moles are clicked only while score < MaxScore.
MaxScore    == 1
\* A session schedules or shows at most MaxGameOver game-over alerts.
MaxGameOver == 2

Cells   == 0 .. (BoardLength - 1)
Indices == 0 .. (MaxIndex - 1)
SnakeIndices == 0 .. (MaxSnake - 1)
ClickIds == 0 .. (MaxClick - 1)

VARIABLES
    state,                \* the Model.State instance (and the unnamed pending timers)
    startButtonDisabled,  \* domSelector.startButton.disabled
    gameOverTimeouts,     \* delays left of the pending "Game Over!" alerts
    ticks,                \* timer callbacks run since the latest startGame
    ended,                \* how the session of the latest startGame ended first
    signals,              \* game-over alerts scheduled or shown since the latest startGame
    uncaught              \* a handler has ended in an uncaught TypeError

vars == <<state, startButtonDisabled, gameOverTimeouts, ticks, ended, signals, uncaught>>

Pending(h) == h >= 0

EmptyBlock == [hasMole |-> FALSE, hasSnake |-> FALSE, moleTimeout |-> NullHandle]

\* State.constructor
NewState ==
    [ score           |-> 0,
      timer           |-> StartTimer,
      board           |-> [i \in Cells |-> EmptyBlock],
      timerIntervalId |-> NullHandle,
      moleIntervalId  |-> NullHandle,
      snakeIntervalId |-> NullHandle,
      timeouts        |-> {} ]

\* A pending timer that no field names: kind is "timer", "mole", "snake" or
\* "expiry"; cell is the block an expiry clears (0 for the others); stale
\* says that it was scheduled before the latest reset().
Unnamed(kind, cell, left, stale) ==
    [kind |-> kind, cell |-> cell, left |-> left, stale |-> stale]

\* Storing a new handle in a field drops the handle h it held: the timer h
\* names, when still pending, goes on running unnamed.
Dropped(kind, cell, h, stale) ==
    IF Pending(h) THEN {Unnamed(kind, cell, h, stale)} ELSE {}

\* clearGameIntervals without its clearInterval of the mole interval
clearGameIntervalsKeepMole(s) ==
    [s EXCEPT
        !.timerIntervalId = NullHandle,
        !.snakeIntervalId = NullHandle,
        !.board = [i \in Cells |-> [s.board[i] EXCEPT !.moleTimeout = NullHandle]]]

\* State.clearGameIntervals
clearGameIntervals(s) ==
    [s EXCEPT
        !.timerIntervalId = NullHandle,
        !.moleIntervalId  = NullHandle,
        !.snakeIntervalId = NullHandle,
        !.board = [i \in Cells |->
                     [s.board[i] EXCEPT
                        !.moleTimeout = NullHandle]]]

\* reset with blocks that keep their hasSnake
resetKeepSnake(s) ==
    LET lost == UNION {Dropped("expiry", i, s.board[i].moleTimeout, TRUE) : i \in Cells}
    IN  clearGameIntervals(
            [s EXCEPT
                !.score    = 0,
                !.timer    = StartTimer,
                !.board    = [i \in Cells |->
                                [EmptyBlock EXCEPT !.hasSnake = s.board[i].hasSnake]],
                !.timeouts = {[t EXCEPT !.stale = TRUE] : t \in s.timeouts} \cup lost])

\* State.reset: the board is replaced before clearGameIntervals runs, so the
\* handles of the old blocks are dropped, not cleared.
reset(s) ==
    LET lost == UNION {Dropped("expiry", i, s.board[i].moleTimeout, TRUE) : i \in Cells}
    IN  clearGameIntervals(
            [s EXCEPT
                !.score    = 0,
                !.timer    = StartTimer,
                !.board    = [i \in Cells |-> EmptyBlock],
                !.timeouts = {[t EXCEPT !.stale = TRUE] : t \in s.timeouts} \cup lost])

currentMoles(s) == Cardinality({i \in Cells : s.board[i].hasMole})

\* The do-while of setMoleAtRandom ends on a block with neither mole nor snake.
Eligible(s, randomIndex) ==
    ~s.board[randomIndex].hasMole /\ ~s.board[randomIndex].hasSnake

\* setMoleAtRandom that only sets hasMole: no test of currentMoles, no expiry
setMoleAtRandomBare(s, randomIndex) ==
    [s EXCEPT !.board[randomIndex].hasMole = TRUE]

\* State.setMoleAtRandom, with the index its loop ended on
setMoleAtRandom(s, randomIndex) ==
    IF currentMoles(s) < maxMoles
    THEN [s EXCEPT
            !.board[randomIndex].hasMole     = TRUE,
            !.board[randomIndex].moleTimeout = MoleLifetime,
            !.timeouts = @ \cup Dropped("expiry", randomIndex,
                                        s.board[randomIndex].moleTimeout, FALSE)]
    ELSE s

\* setSnakeAtRandom without the forEach that clears hasSnake
setSnakeAtRandomKeep(s, randomIndex) ==
    [s EXCEPT !.board[randomIndex].hasSnake = TRUE]

\* State.setSnakeAtRandom
setSnakeAtRandom(s, randomIndex) ==
    [s EXCEPT !.board = [i \in Cells |->
                           [s.board[i] EXCEPT !.hasSnake = (i = randomIndex)]]]

\* State.startTimer: the assignment of the new interval's handle
startTimer(s) ==
    [s EXCEPT !.timerIntervalId = TimerPeriod,
              !.timeouts = @ \cup Dropped("timer", 0, s.timerIntervalId, FALSE)]

\* State.startGameLoop
startGameLoop(s) ==
    [s EXCEPT !.moleIntervalId  = MolePeriod,
              !.snakeIntervalId = SnakePeriod,
              !.timeouts = @ \cup Dropped("mole", 0, s.moleIntervalId, FALSE)
                             \cup Dropped("snake", 0, s.snakeIntervalId, FALSE)]

\* State.increaseScore
increaseScore(s) == [s EXCEPT !.score = @ + 1]

\* The delay left of the interval a field names, and its period.
IntervalId(s, kind) ==
    CASE kind = "timer" -> s.timerIntervalId
      [] kind = "mole"  -> s.moleIntervalId
      [] kind = "snake" -> s.snakeIntervalId

Period(kind) ==
    CASE kind = "timer" -> TimerPeriod
      [] kind = "mole"  -> MolePeriod
      [] kind = "snake" -> SnakePeriod

\* setInterval: an interval that is due runs its callback and is armed again.
\* The states s can be in once one due interval of the kind is armed again,
\* one state for each such interval (the named one and the unnamed ones).
Rearmed(s, kind) ==
    (IF IntervalId(s, kind) = 0
     THEN {CASE kind = "timer" -> [s EXCEPT !.timerIntervalId = TimerPeriod]
             [] kind = "mole"  -> [s EXCEPT !.moleIntervalId  = MolePeriod]
             [] kind = "snake" -> [s EXCEPT !.snakeIntervalId = SnakePeriod]}
     ELSE {})
    \cup
    {[s EXCEPT !.timeouts = (@ \ {t}) \cup {[t EXCEPT !.left = Period(kind)]}] :
        t \in {u \in s.timeouts : u.kind = kind /\ u.left = 0}}

\* setTimeout of setMoleAtRandom: a mole expiry that is due runs once.  The
\* states s can be in once one due expiry is taken off the host's timers,
\* each with the randomIndex its callback closes over.
Expired(s) ==
    {[after |-> [s EXCEPT !.board[i].moleTimeout = NullHandle], randomIndex |-> i] :
        i \in {j \in Cells : s.board[j].moleTimeout = 0}}
    \cup
    {[after |-> [s EXCEPT !.timeouts = @ \ {t}], randomIndex |-> t.cell] :
        t \in {u \in s.timeouts : u.kind = "expiry" /\ u.left = 0}}

\* The callback of the mole's setTimeout
moleTimeout(s, randomIndex) == [s EXCEPT !.board[randomIndex].hasMole = FALSE]

\* The test of the timer callback with < for <=
TimeIsOverStrict(s) == s.timer < 0

\* The test of the callback of startTimer
TimeIsOver(s) == s.timer <= 0

\* The callback of startTimer without its calls of onUpdate and onEnd
timerCallback(s) ==
    IF TimeIsOver(s)
    THEN [s EXCEPT !.timerIntervalId = NullHandle]
    ELSE [s EXCEPT !.timer = @ - 1]

\* The snake click without its clearGameIntervals
snakeClickedNoClear(s) ==
    [s EXCEPT !.board = [i \in Cells |-> [s.board[i] EXCEPT !.hasSnake = TRUE]]]

\* handleBlockClick on a block with a snake: the changes of the state
snakeClicked(s) ==
    LET c == clearGameIntervals(s)
    IN  [c EXCEPT !.board = [i \in Cells |-> [c.board[i] EXCEPT !.hasSnake = TRUE]]]

\* The mole click without its clearTimeout
moleClickedNoClear(s, blockId) ==
    LET i == increaseScore(s)
    IN  [i EXCEPT !.board[blockId].hasMole = FALSE]

\* handleBlockClick on a block with a mole and no snake: the changes of the state
moleClicked(s, blockId) ==
    LET i == increaseScore(s)
    IN  [i EXCEPT !.board[blockId].hasMole     = FALSE,
                  !.board[blockId].moleTimeout = NullHandle]

\* Every delay left on a pending timer, named or not
Delays(s, g) ==
    {h \in {s.timerIntervalId, s.moleIntervalId, s.snakeIntervalId} : Pending(h)}
    \cup {s.board[i].moleTimeout : i \in {j \in Cells : Pending(s.board[j].moleTimeout)}}
    \cup {t.left : t \in s.timeouts}
    \cup {g[k].left : k \in DOMAIN g}

Later(h) == IF Pending(h) THEN h - Quantum ELSE h

\* The state once Quantum milliseconds have passed
Elapsed(s) ==
    [s EXCEPT
        !.timerIntervalId = Later(@),
        !.moleIntervalId  = Later(@),
        !.snakeIntervalId = Later(@),
        !.board    = [i \in Cells |-> [s.board[i] EXCEPT !.moleTimeout = Later(@)]],
        !.timeouts = {[t EXCEPT !.left = @ - Quantum] : t \in s.timeouts}]

Remove(q, k) == [j \in 1 .. (Len(q) - 1) |-> IF j < k THEN q[j] ELSE q[j + 1]]

Init ==
    /\ state = NewState
    /\ startButtonDisabled = FALSE
    /\ gameOverTimeouts = <<>>
    /\ ticks = 0
    /\ ended = "none"
    /\ signals = 0
    /\ uncaught = FALSE

\* Controller.startGame: the click handler of the start button, which the
\* browser runs only while the button is enabled.
startGame ==
    /\ ~startButtonDisabled
    /\ state' = startGameLoop(startTimer(reset(state)))
    /\ startButtonDisabled' = TRUE
    /\ gameOverTimeouts' = [k \in DOMAIN gameOverTimeouts |->
                               [gameOverTimeouts[k] EXCEPT !.stale = TRUE]]
    /\ ticks' = 0
    /\ ended' = "none"
    /\ signals' = 0
    /\ UNCHANGED uncaught

\* The click handler without its snake branch and without the test of hasMole
handleBlockClickNoMoleTest(blockId) ==
    /\ blockId \in Cells
    /\ ~state.board[blockId].hasSnake
    /\ state.score < MaxScore
    /\ state' = moleClicked(state, blockId)
    /\ UNCHANGED <<startButtonDisabled, gameOverTimeouts, ticks, ended, signals, uncaught>>

\* Controller.handleBlockClick on the block with data-id blockId.  For a
\* blockId that is no index of the board, state.board[blockId] is undefined
\* and reading block.hasSnake throws a TypeError that nothing catches.
handleBlockClick(blockId) ==
    IF blockId \notin Cells
    THEN /\ uncaught' = TRUE
         /\ UNCHANGED <<state, startButtonDisabled, gameOverTimeouts, ticks, ended, signals>>
    ELSE
    LET block == state.board[blockId] IN
    IF block.hasSnake
    THEN /\ signals < MaxGameOver
         /\ state' = snakeClicked(state)
         /\ gameOverTimeouts' =
                Append(gameOverTimeouts, [left |-> GameOverDelay, stale |-> FALSE])
         /\ ended' = IF ended = "none" THEN "snake" ELSE ended
         /\ signals' = signals + 1
         /\ UNCHANGED <<startButtonDisabled, ticks, uncaught>>
    ELSE IF block.hasMole
    THEN /\ state.score < MaxScore
         /\ state' = moleClicked(state, blockId)
         /\ UNCHANGED <<startButtonDisabled, gameOverTimeouts, ticks, ended, signals, uncaught>>
    ELSE UNCHANGED vars

\* A click on a block that createBoard rendered: its data-id is a block's id.
Click == \E blockId \in ClickIds : handleBlockClick(blockId)

\* A click event made up with a data-id that is no index of the board
InvalidIds == {0 - 1, BoardLength}

InvalidClick == \E blockId \in InvalidIds : handleBlockClick(blockId)

\* The timer interval fires: the callback of startTimer, and the onEnd that
\* startGame passes to it.
TimerTick ==
    \E h \in Rearmed(state, "timer") :
        /\ ticks' = ticks + 1
        /\ IF TimeIsOver(h)
           THEN /\ state' = clearGameIntervals(timerCallback(h))
                /\ startButtonDisabled' = FALSE
                /\ ended' = IF ended = "none" THEN "timeout" ELSE ended
                /\ signals' = signals + 1
           ELSE /\ state' = timerCallback(h)
                /\ UNCHANGED <<startButtonDisabled, ended, signals>>
        /\ UNCHANGED <<gameOverTimeouts, uncaught>>

\* The mole interval fires: the first callback of startGameLoop
MoleTick ==
    \E h \in Rearmed(state, "mole") :
        \E randomIndex \in Indices :
            /\ currentMoles(h) < maxMoles => Eligible(h, randomIndex)
            /\ state' = setMoleAtRandom(h, randomIndex)
            /\ UNCHANGED <<startButtonDisabled, gameOverTimeouts, ticks, ended, signals, uncaught>>

\* The snake interval fires: the second callback of startGameLoop
SnakeTick ==
    \E h \in Rearmed(state, "snake") :
        \E randomIndex \in SnakeIndices :
            /\ state' = setSnakeAtRandom(h, randomIndex)
            /\ UNCHANGED <<startButtonDisabled, gameOverTimeouts, ticks, ended, signals, uncaught>>

\* A mole's setTimeout fires
MoleExpiry ==
    \E e \in Expired(state) :
        /\ state' = moleTimeout(e.after, e.randomIndex)
        /\ UNCHANGED <<startButtonDisabled, gameOverTimeouts, ticks, ended, signals, uncaught>>

\* The setTimeout of a snake click fires: the alert, and the start button
GameOver ==
    \E k \in DOMAIN gameOverTimeouts :
        /\ gameOverTimeouts[k].left = 0
        /\ gameOverTimeouts' = Remove(gameOverTimeouts, k)
        /\ startButtonDisabled' = FALSE
        /\ UNCHANGED <<state, ticks, ended, signals, uncaught>>

\* Quantum milliseconds pass: no timer is due, and some timer is pending.
Advance ==
    /\ Delays(state, gameOverTimeouts) # {}
    /\ 0 \notin Delays(state, gameOverTimeouts)
    /\ state' = Elapsed(state)
    /\ gameOverTimeouts' = [k \in DOMAIN gameOverTimeouts |->
                               [gameOverTimeouts[k] EXCEPT !.left = @ - Quantum]]
    /\ UNCHANGED <<startButtonDisabled, ticks, ended, signals, uncaught>>

Next ==
    \/ startGame
    \/ Click
    \/ TimerTick
    \/ MoleTick
    \/ SnakeTick
    \/ MoleExpiry
    \/ GameOver
    \/ Advance

Spec == Init /\ [][Next]_vars

\* The program under click events that carry any data-id
NextInvalid ==
    \/ Next
    \/ InvalidClick

SpecInvalid == Init /\ [][NextInvalid]_vars

\* ------------------------------------------------------------------ claims
Moles  == {i \in Cells : state.board[i].hasMole}
Snakes == {i \in Cells : state.board[i].hasSnake}

\* A session is Running while its timer interval is active: from startGame
\* to the timeout or the snake click that ends it.
Running == Pending(state.timerIntervalId)

\* The active intervals of a kind, named or not
ActiveIntervals(kind) ==
    (IF Pending(IntervalId(state, kind)) THEN 1 ELSE 0)
    + Cardinality({t \in state.timeouts : t.kind = kind})

\* The pending mole expiries, named or not, as <<block, delay left>>
PendingExpiries ==
    {<<i, state.board[i].moleTimeout>> :
        i \in {j \in Cells : Pending(state.board[j].moleTimeout)}}
    \cup {<<t.cell, t.left>> : t \in {u \in state.timeouts : u.kind = "expiry"}}

\* The game-over alerts of this session that are still to be shown
OwnGameOvers == {k \in DOMAIN gameOverTimeouts : ~gameOverTimeouts[k].stale}

\* C1: in every reachable state at most maxMoles blocks have hasMole = true.
C1_MolesAtMostMax == Cardinality(Moles) <= maxMoles

C1_Witness == Running /\ Cardinality(Moles) = maxMoles

\* C2 as stated: while the session is Running exactly one block has
\* hasSnake = true, or all of them at the snake reveal.
C2_Original ==
    Running => Cardinality(Snakes) = 1 \/ Cardinality(Snakes) = BoardLength

\* The milliseconds since startGame, while the session is Running
SinceStart == ticks * TimerPeriod + (TimerPeriod - state.timerIntervalId)

\* The snake interval has not fired since startGame
BeforeFirstSnakeTick ==
    \/ SinceStart < SnakePeriod
    \/ SinceStart = SnakePeriod /\ state.snakeIntervalId = 0

\* C2 as amended: while the session is Running at most one block has
\* hasSnake = true: none from startGame until the first snake tick 2000 ms
\* later, exactly one from then on; every block has hasSnake = true after
\* the snake click that ended the session, when it is no longer Running.
C2_AtMostOneSnake ==
    /\ Running => IF BeforeFirstSnakeTick
                  THEN Snakes = {}
                  ELSE Cardinality(Snakes) = 1
    /\ ended = "snake" => ~Running /\ Snakes = Cells

C2_Witness == Running /\ ~BeforeFirstSnakeTick /\ Cardinality(Snakes) = 1

\* C3: no block has hasMole = true and hasSnake = true at the same time.
C3_NoMoleWithSnake == Moles \cap Snakes = {}

\* C4: a click on a block with a mole and no snake adds exactly 1 to the
\* score, clears hasMole of the block and cancels its pending expiry, which
\* is not left running under another handle; and nothing else raises the
\* score: not an expiry, not a click on a block without a mole (such as a
\* second click on the same block) or with a snake.
C4_MoleClick ==
    [][/\ \A c \in Indices :
            (state.board[c].hasMole /\ ~state.board[c].hasSnake /\ handleBlockClick(c))
            => /\ state'.score = state.score + 1
               /\ ~state'.board[c].hasMole
               /\ ~Pending(state'.board[c].moleTimeout)
               /\ state'.timeouts = state.timeouts
       /\ state'.score > state.score
            => \E c \in Indices :
                  state.board[c].hasMole /\ ~state.board[c].hasSnake /\ handleBlockClick(c)]_vars

C4_Witness == Running /\ state.score = MaxScore

\* C5: from a snake click in a running session to the game-over alert it
\* schedules, no block changes (but for the snake reveal of a further click,
\* which changes nothing) and the remaining seconds do not change.
C5_SnakeClickStopsAll ==
    [][(ended = "snake" /\ ended' = "snake" /\ Cardinality(OwnGameOvers) = signals)
        => state'.board = state.board /\ state'.timer = state.timer]_vars

\* C6: the timer callback takes 1 off the remaining seconds on each of its
\* first 30 runs, the timeout is signalled on the 31st run and on no other,
\* and the remaining seconds never go below 0.
C6_TimeoutOn31stTick ==
    /\ ticks \in 0 .. (StartTimer + 1)
    /\ state.timer >= 0
    /\ state.timer = IF ticks <= StartTimer THEN StartTimer - ticks ELSE 0
    /\ ended = "timeout" <=> ticks = StartTimer + 1

C6_Witness == ended = "timeout" /\ ticks = 31 /\ state.timer = 0

\* C7: no mole expiry scheduled before the latest reset() is still pending.
C7_NoStaleExpiry ==
    \A t \in state.timeouts : ~(t.kind = "expiry" /\ t.stale)

\* No time has passed since startGame: the timer interval has its whole
\* period left and its callback has not run.
JustStarted == ticks = 0 /\ state.timerIntervalId = TimerPeriod

\* C8: right after startGame the score is 0, the remaining seconds are 30
\* and no block has a mole or a snake.
C8_StartResets ==
    JustStarted =>
        /\ state.score = 0
        /\ state.timer = 30
        /\ \A i \in Cells : ~state.board[i].hasMole /\ ~state.board[i].hasSnake

C8_Witness ==
    /\ JustStarted
    /\ \E k \in DOMAIN gameOverTimeouts : gameOverTimeouts[k].stale

\* C9: at most one timer interval, one mole interval and one snake interval
\* are active, whatever the startGame calls made.
C9_NoDoubleLaunch ==
    \A kind \in {"timer", "mole", "snake"} : ActiveIntervals(kind) <= 1

C9_Witness ==
    /\ Running /\ ticks = 0
    /\ \E t \in state.timeouts : t.kind = "expiry" /\ t.stale

\* C10: once the timeout is signalled, no interval and no mole expiry is
\* pending and the start button is enabled, until the next startGame.
C10_TimeoutStopsAll ==
    ended = "timeout" =>
        /\ ActiveIntervals("mole") = 0
        /\ ActiveIntervals("snake") = 0
        /\ PendingExpiries = {}
        /\ ~startButtonDisabled

\* What a block shows: its hasMole and hasSnake flags
Flags(s) == [i \in Cells |-> <<s.board[i].hasMole, s.board[i].hasSnake>>]

\* C11: a click on a snake block gives every block a snake and leaves the
\* score alone; from that click to the next startGame no step changes a
\* block's flags or the score, and the start button is enabled only by the
\* game-over callback of that session, 500 ms after the click.
C11_SnakeClickFreezes ==
    [][ended' = "snake" =>
            /\ state'.score = state.score
            /\ Snakes' = Cells
            /\ ended = "snake" => Flags(state') = Flags(state)
            /\ (startButtonDisabled /\ ~startButtonDisabled') =>
                    \E k \in OwnGameOvers : gameOverTimeouts[k].left = 0]_vars

\* C12: while the timer interval of a session is active the start button is
\* disabled: no game-over callback of an earlier session enables it.
C12_RunningDisabled == Running => startButtonDisabled

\* C13: whenever the mole interval is active and fewer than maxMoles blocks
\* have a mole, some block has neither a mole nor a snake, so the do-while of
\* setMoleAtRandom has a block to end on; a mole appears only on such a
\* block, one at a time, and never when maxMoles blocks have a mole.
C13_MoleTickTerminates ==
    [][/\ (Pending(state'.moleIntervalId) \/ \E t \in state'.timeouts : t.kind = "mole")
            => \/ \E i \in Cells : Eligible(state', i)
               \/ currentMoles(state') >= maxMoles
       /\ state'.board # state.board =>
            \A i \in Cells :
                (state'.board[i].hasMole /\ ~state.board[i].hasMole) =>
                    /\ ~state.board[i].hasSnake
                    /\ currentMoles(state) < maxMoles
                    /\ \A j \in Cells \ {i} :
                            state'.board[j].hasMole => state.board[j].hasMole]_vars

C13_Witness ==
    /\ ActiveIntervals("mole") > 0
    /\ Cardinality(Snakes) = 1
    /\ Cardinality(Moles) = maxMoles
    /\ \E i \in Moles : state.board[i].moleTimeout = MoleLifetime

\* C14: a click on a block with neither a mole nor a snake changes nothing:
\* blocks, score, remaining seconds, intervals, mole expiries, start button
\* and scheduled game-over callbacks stay as they are (no step that changes
\* any of them is such a click).
C14_EmptyClickNoOp ==
    [][\/ UNCHANGED vars
       \/ \A blockId \in Indices :
            Eligible(state, blockId) => ~handleBlockClick(blockId)]_vars

C14_Witness ==
    /\ Running
    /\ Moles # {}
    /\ Cardinality(Snakes) = 1
    /\ \E blockId \in Indices : Eligible(state, blockId)

\* C15: a click with a data-id that is no index of the board raises no error
\* and leaves blocks, score, remaining seconds, timers and start button as
\* they are.
C15_InvalidClickSilent ==
    [][\A blockId \in InvalidIds :
            handleBlockClick(blockId) =>
                /\ ~uncaught'
                /\ UNCHANGED <<state, startButtonDisabled, gameOverTimeouts>>]_vars

\* The pending mole expiries, named or not, that will clear block i
ExpiriesOn(i) == {e \in PendingExpiries : e[1] = i}

\* C16: a block has a pending mole expiry exactly when it has a mole, and no
\* block has more than one pending expiry.
C16_ExpiryIffMole ==
    \A i \in Cells :
        /\ state.board[i].hasMole <=> ExpiriesOn(i) # {}
        /\ Cardinality(ExpiriesOn(i)) <= 1

\* C17: while the session runs, a block has a mole exactly as long as the
\* expiry set at its placement (the one its moleTimeout names, which a click
\* clears) is pending: the mole goes when that expiry fires, 2000 ms after
\* the placement, not before and not after.
C17_MoleLivesItsLifetime ==
    Running =>
        \A i \in Cells :
            state.board[i].hasMole <=> Pending(state.board[i].moleTimeout)

\* C18: between one startGame and the next at most one game-over alert
\* (timeout or snake) is scheduled or shown.
C18_OneGameOver == signals <= 1

\* C19: after the timeout and until the next startGame no step changes the
\* score or the flags of a block.
C19_TimeoutFreezes ==
    [][(ended = "timeout" /\ ended' = "timeout") =>
            /\ state'.score = state.score
            /\ Flags(state') = Flags(state)]_vars
====
